---- MODULE Spec2Model ----
(***************************************************************************)
(* A model of BaseLearner (src/learners/base_learner.py): the pool-based   *)
(* active-learning controller of Curious Snake.                            *)
(*                                                                         *)
(* Python lists are TLA+ sequences, so the feature space the source calls  *)
(* index 0 is position 1 here.  The dataset container (module `dataset`)   *)
(* and the classifier (libsvm's svm_model) are collaborators of the        *)
(* controller: the container is modelled from its contract, the classifier *)
(* is opaque (a model is the record of what it was trained on, a           *)
(* prediction is any label, a kernel evaluation is the uninterpreted term  *)
(* of its arguments).                                                      *)
(***************************************************************************)
EXTENDS Integers, Sequences, FiniteSets, TLC

\* ------------------------------------------------------------------ bounds
NumSpaces == 2      \* feature spaces (len(unlabeled_datasets))
NumIds == 3         \* examples in the pool, identifiers 1..NumIds
MaxListLen == 2     \* longest identifier list a caller passes in
MaxBudget == 2      \* largest num_examples_to_label
MaxBatch == 2       \* largest num_to_label_at_each_iteration
MaxModels == 3      \* longest list of pre-built models given to __init__
NumLabels == 3      \* label values a classifier predicts
MaxCacheId == 1     \* largest identifier the cached lookups are made on
MaxCacheEntries == 1  \* most entries the two hashes hold together
MaxRefs == 3        \* largest reference set a distance lookup is given
MaxDist == 2        \* largest distance between two examples
MaxArgLen == 4      \* longest list _arg_max is given
MaxScore == 2       \* largest score of an element of that list

Spaces == 1..NumSpaces
Ids == 1..NumIds
\* identifiers a caller may name: those of the pool and one (0) of no example
AnyIds == 0..NumIds

Range(s) == {s[j] : j \in DOMAIN s}

\* the lists of at most n elements of S a caller passes in, repeated elements
\* included, each written in non-decreasing order
SeqsUpTo(S, n) ==
    {s \in UNION {[1..m -> S] : m \in 0..n} :
        \A a, b \in DOMAIN s : a < b => s[a] <= s[b]}

\* every list of k distinct elements of S
DistinctSeqs(S, k) ==
    {s \in [1..k -> S] : \A a, b \in 1..k : a # b => s[a] # s[b]}

RECURSIVE SetToSeq(_)
SetToSeq(S) ==
    IF S = {} THEN <<>>
    ELSE LET m == CHOOSE x \in S : \A y \in S : x <= y
         IN <<m>> \o SetToSeq(S \ {m})

\* ------------------------------------------------------- the example store
\* ground truth of the pool: identifiers 1, 4, 7, ... are of the minority
\* (positive) class, the others of the majority class
TrueLabel(id) == IF id % 3 = 1 THEN 1 ELSE -1

\* the example `id` as the pool loads it: lbl is its working label.  Its
\* ground truth (inst.label) and its feature vector in space i (inst.point)
\* never change, and are read off its identifier.
Instance(id) == [id |-> id, lbl |-> TrueLabel(id), has_synthetic_label |-> FALSE]

label(inst) == TrueLabel(inst.id)

point(i, inst) == <<i, inst.id>>

\* dataset.get_instance_ids
get_instance_ids(instances) == [j \in DOMAIN instances |-> instances[j].id]

IdSet(instances) == {instances[j].id : j \in DOMAIN instances}

\* dataset.remove_instances: takes the named examples out, returns them
remove_instances(instances, inst_ids) ==
    [kept |-> SelectSeq(instances, LAMBDA inst : inst.id \notin Range(inst_ids)),
     removed |-> SelectSeq(instances, LAMBDA inst : inst.id \in Range(inst_ids))]

\* a dataset's list with one more example.  The order of the list shows to
\* the controller only as the alignment of indices between feature spaces
\* (unlabel_instances); the lists are kept in identifier order, which keeps
\* the alignment that inserting in lockstep gives.
insert_instance(instances, inst) ==
    SelectSeq(instances, LAMBDA x : x.id <= inst.id) \o <<inst>>
        \o SelectSeq(instances, LAMBDA x : x.id > inst.id)

\* dataset.add_instances
RECURSIVE add_instances(_, _)
add_instances(instances, new) ==
    IF new = <<>> THEN instances
    ELSE add_instances(insert_instance(instances, Head(new)), Tail(new))

is_minority(inst) == inst.lbl = 1
is_majority(inst) == inst.lbl = -1

number_of_minority_examples(instances) ==
    Cardinality({j \in DOMAIN instances : is_minority(instances[j])})

number_of_majority_examples(instances) ==
    Cardinality({j \in DOMAIN instances : is_majority(instances[j])})

minority_ids(instances) ==
    {instances[j].id : j \in {n \in DOMAIN instances : is_minority(instances[n])}}

majority_ids(instances) ==
    {instances[j].id : j \in {n \in DOMAIN instances : is_majority(instances[n])}}

\* dataset.get_samples_and_labels, of the dataset of feature space i
get_samples_and_labels(i, instances) ==
    [samples |-> [j \in DOMAIN instances |-> point(i, instances[j])],
     labels |-> [j \in DOMAIN instances |-> instances[j].lbl]]

\* ---------------------------------------------------------- the classifier
\* svm_model(svm_problem(labels, samples), param): param i is self.params[i]
svm_model(samples_and_labels, param) ==
    [param |-> param,
     samples |-> samples_and_labels.samples,
     labels |-> samples_and_labels.labels]

NoModels == [is_none |-> TRUE, list |-> <<>>]

\* The kernel of a trained model is a function of the model and of the two
\* feature vectors.  It is modelled by a function that tells models apart:
\* models of different parameters or of different numbers of training
\* samples give different similarities, and different distances between
\* different vectors; the distance of a vector from itself is 0.
weight(model) == model.param + (NumSpaces + MaxModels) * Len(model.samples)

Abs(n) == IF n < 0 THEN -n ELSE n

\* svm_model.compute_cos_between_examples
compute_cos_between_examples(model, p, q) == weight(model) * p[2] * q[2]

\* svm_model.compute_dist_between_examples
compute_dist_between_examples(model, p, q) == weight(model) * Abs(p[2] - q[2])

\* the label values of the classifier: -1 and +1, and further classes 2, 3, ..
Labels == {-1} \cup 1..(NumLabels - 1)

\* a list of n models built before the controller (__init__'s models)
prebuilt_models(n) ==
    [is_none |-> FALSE,
     list |-> [j \in 1..n |-> svm_model([samples |-> <<>>, labels |-> <<>>], j)]]

\* ------------------------------------------------------------------- state
VARIABLES
    unlabeled_datasets,     \* self.unlabeled_datasets: one list of examples per space
    labeled_datasets,       \* self.labeled_datasets
    models,                 \* self.models: None, or the list of models
    query_function,         \* self.query_function: the strategy's name
    div_hash,               \* self.div_hash
    dist_hash,              \* self.dist_hash
    pc,                     \* "idle", or "while" inside active_learn's loop
    num_examples_to_label,  \* active_learn's arguments and its local
    num_to_label_at_each_iteration,
    rebuild_models_at_each_iter,
    labeled_so_far,
    ret                     \* the last call: its name and what it returned or raised

vars == <<unlabeled_datasets, labeled_datasets, models, query_function,
          div_hash, dist_hash, pc, num_examples_to_label,
          num_to_label_at_each_iteration, rebuild_models_at_each_iter,
          labeled_so_far, ret>>

loop_vars == <<pc, num_examples_to_label, num_to_label_at_each_iteration,
               rebuild_models_at_each_iter, labeled_so_far>>

hashes == <<div_hash, dist_hash>>

partitions == <<unlabeled_datasets, labeled_datasets>>

\* what a call hands back: the value it returned, or the message it raised
Nothing == [none |-> TRUE]
Returned(op, value) == [op |-> op, raised |-> "", value |-> value]
Raised(op, message) == [op |-> op, raised |-> message, value |-> Nothing]

\* BaseLearner.__init__ on NumSpaces loaded pools
Init ==
    /\ unlabeled_datasets = [i \in Spaces |-> [id \in Ids |-> Instance(id)]]
    /\ labeled_datasets = [i \in Spaces |-> <<>>]
    /\ models = NoModels
    /\ div_hash = <<>>
    /\ dist_hash = <<>>
    /\ query_function = "base_q_function"
    /\ pc = "idle"
    /\ num_examples_to_label = 0
    /\ num_to_label_at_each_iteration = 0
    /\ rebuild_models_at_each_iter = TRUE
    /\ labeled_so_far = 0
    /\ ret = Returned("__init__", Nothing)

\* --------------------------------------------------------------- labeling
\* label_instances_in_all_datasets as it would be with the loop over the
\* feature spaces left out: only space 0 is labeled
label_instances_in_first_dataset(U, L, inst_ids) ==
    [unlabeled |-> [i \in DOMAIN U |->
                      IF i = 1 THEN remove_instances(U[i], inst_ids).kept ELSE U[i]],
     labeled |-> [i \in DOMAIN L |->
                    IF i = 1
                    THEN add_instances(L[i], remove_instances(U[i], inst_ids).removed)
                    ELSE L[i]]]

\* label_instances_in_all_datasets as it would be if it copied the examples
\* into the labeled datasets and left them in the unlabeled ones
label_instances_by_copy(U, L, inst_ids) ==
    [unlabeled |-> U,
     labeled |-> [i \in DOMAIN L |->
                    add_instances(L[i], remove_instances(U[i], inst_ids).removed)]]

\* label_instances_in_all_datasets: the partitions after the call
label_instances_in_all_datasets(U, L, inst_ids) ==
    [unlabeled |-> [i \in DOMAIN U |-> remove_instances(U[i], inst_ids).kept],
     labeled |-> [i \in DOMAIN L |->
                    add_instances(L[i], remove_instances(U[i], inst_ids).removed)]]

\* unlabel_instances as it would be without its first loop: the examples go
\* back as they are
revert_nothing(L, inst_ids) == L

\* unlabel_instances, first loop: the examples of every space that sit at an
\* index where space 0's labeled example is named get their ground truth back
revert_labels(L, inst_ids) ==
    [i \in DOMAIN L |->
        [j \in DOMAIN L[i] |->
            IF j \in DOMAIN L[1] /\ L[1][j].id \in Range(inst_ids)
            THEN [L[i][j] EXCEPT !.lbl = label(L[i][j]),
                                 !.has_synthetic_label = FALSE]
            ELSE L[i][j]]]

\* unlabel_instances: the partitions after the call
unlabel_instances(U, L, inst_ids) ==
    LET R == revert_labels(L, inst_ids)
    IN [unlabeled |-> [i \in DOMAIN U |->
                         add_instances(U[i], remove_instances(R[i], inst_ids).removed)],
        labeled |-> [i \in DOMAIN L |-> remove_instances(R[i], inst_ids).kept]]

\* rebuild_models' loop: one model per (dataset, param) pair
train_models(datasets) ==
    [is_none |-> FALSE,
     list |-> [i \in DOMAIN datasets |->
                 svm_model(get_samples_and_labels(i, datasets[i]), i)]]

Idle == pc = "idle"

\* what a call of label_instances_in_all_datasets or unlabel_instances is
\* recorded with: whether its list named an identifier twice, and whether it
\* named one that the partition it takes from (space 0's) does not hold
ListShape(inst_ids, source) ==
    [repeated |-> \E a, b \in DOMAIN inst_ids : a # b /\ inst_ids[a] = inst_ids[b],
     absent |-> \E a \in DOMAIN inst_ids : inst_ids[a] \notin IdSet(source)]

LabelInstancesInAllDatasets ==
    /\ Idle
    /\ \E inst_ids \in SeqsUpTo(AnyIds, MaxListLen) :
        LET P == label_instances_in_all_datasets(
                     unlabeled_datasets, labeled_datasets, inst_ids)
        IN /\ unlabeled_datasets' = P.unlabeled
           /\ labeled_datasets' = P.labeled
           /\ ret' = Returned("label_instances_in_all_datasets",
                              ListShape(inst_ids, unlabeled_datasets[1]))
    /\ UNCHANGED <<models, query_function, hashes, loop_vars>>

LabelAllData ==
    /\ Idle
    /\ LET inst_ids == get_instance_ids(unlabeled_datasets[1])
           P == label_instances_in_all_datasets(
                     unlabeled_datasets, labeled_datasets, inst_ids)
       IN /\ unlabeled_datasets' = P.unlabeled
          /\ labeled_datasets' = P.labeled
          /\ ret' = Returned("label_all_data", Nothing)
    /\ UNCHANGED <<models, query_function, hashes, loop_vars>>

UnlabelInstances ==
    /\ Idle
    /\ \E inst_ids \in SeqsUpTo(AnyIds, MaxListLen) :
        LET P == unlabel_instances(unlabeled_datasets, labeled_datasets, inst_ids)
        IN /\ unlabeled_datasets' = P.unlabeled
           /\ labeled_datasets' = P.labeled
           /\ ret' = Returned("unlabel_instances",
                              ListShape(inst_ids, labeled_datasets[1]))
    /\ UNCHANGED <<models, query_function, hashes, loop_vars>>

\* pick_balanced_initial_training_set as it would be without line 159: the
\* identifiers are picked and returned, and no example is labeled
PickWithoutLabeling ==
    /\ Idle
    /\ \E k \in 0..MaxListLen :
        LET mins == minority_ids(unlabeled_datasets[1])
            majs == majority_ids(unlabeled_datasets[1])
        IN IF Cardinality(mins) < k \/ Cardinality(majs) < k
           THEN ret' = Raised("pick_balanced_initial_training_set",
                              "not enough examples")
           ELSE \E minority_ids_to_label \in DistinctSeqs(mins, k),
                   majority_ids_to_label \in DistinctSeqs(majs, k) :
                    ret' = Returned("pick_balanced_initial_training_set",
                                    [ids |-> minority_ids_to_label
                                                \o majority_ids_to_label])
    /\ UNCHANGED <<partitions, models, query_function, hashes, loop_vars>>

\* pick_balanced_initial_training_set(k); the store raises when it holds
\* fewer than k examples of a class
PickBalancedInitialTrainingSet ==
    /\ Idle
    /\ \E k \in 0..MaxListLen :
        LET mins == minority_ids(unlabeled_datasets[1])
            majs == majority_ids(unlabeled_datasets[1])
        IN IF Cardinality(mins) < k \/ Cardinality(majs) < k
           THEN /\ ret' = Raised("pick_balanced_initial_training_set",
                                 "not enough examples")
                /\ UNCHANGED partitions
           ELSE \E minority_ids_to_label \in DistinctSeqs(mins, k),
                   majority_ids_to_label \in DistinctSeqs(majs, k) :
                    LET all_ids_to_label ==
                            minority_ids_to_label \o majority_ids_to_label
                        P == label_instances_in_all_datasets(
                                 unlabeled_datasets, labeled_datasets,
                                 all_ids_to_label)
                    IN /\ unlabeled_datasets' = P.unlabeled
                       /\ labeled_datasets' = P.labeled
                       /\ ret' = Returned("pick_balanced_initial_training_set",
                                          [ids |-> all_ids_to_label])
    /\ UNCHANGED <<models, query_function, hashes, loop_vars>>

\* ------------------------------------------------------------ undersampling
\* dataset.undersample(k) takes k majority examples out, chosen at random
undersample_choices(instances, k) ==
    {R \in SUBSET majority_ids(instances) : Cardinality(R) = k}

\* the removal count with the two class counts taken in the wrong order
default_k_swapped(L) ==
    number_of_minority_examples(L[1]) - number_of_majority_examples(L[1])

\* undersample_labeled_datasets, line 173: the removal count when none is given
default_k(L) ==
    number_of_majority_examples(L[1]) - number_of_minority_examples(L[1])

\* undersample_labeled_datasets as it would be without line 175's copy: the
\* examples are taken out of the controller's own labeled datasets
undersample_in_place(L, k, R) ==
    LET removed_instance_nums == SetToSeq(R)
        cut == IF k < number_of_majority_examples(L[1]) /\ k > 0
               THEN [i \in DOMAIN L |->
                       remove_instances(L[i], removed_instance_nums).kept]
               ELSE L
    IN [labeled |-> cut, copies |-> cut]

\* undersample_labeled_datasets, lines 175-185: the controller's labeled
\* partitions after the call, and the copies it returns, when
\* copied_datasets[0].undersample(k) takes out the examples named in R
undersample_labeled_datasets(L, k, R) ==
    LET copied_datasets == [i \in DOMAIN L |-> L[i]]
        removed_instance_nums == SetToSeq(R)
    IN [labeled |-> L,
        copies |-> IF k < number_of_majority_examples(L[1]) /\ k > 0
                   THEN [i \in DOMAIN L |->
                           remove_instances(copied_datasets[i],
                                            removed_instance_nums).kept]
                   ELSE copied_datasets]

has_labeled_data(L) == Len(L) > 0 /\ Len(L[1]) > 0

\* the outcomes of undersample_labeled_datasets(k) on L; k_given = FALSE is
\* k = None, and `not k` also takes k = 0 for None
undersample_outcomes(L, k_given, k_arg) ==
    LET k == IF ~k_given \/ k_arg = 0 THEN default_k(L) ELSE k_arg
        removes == k < number_of_majority_examples(L[1]) /\ k > 0
    IN {undersample_labeled_datasets(L, k, R) :
            R \in IF removes THEN undersample_choices(L[1], k) ELSE {{}}}

UndersampleLabeledDatasets ==
    /\ Idle
    /\ \E k_given \in BOOLEAN, k_arg \in -1..NumIds :
        /\ k_given \/ k_arg = 0
        /\ LET arg == [k_given |-> k_given, k |-> k_arg]
           IN IF ~has_labeled_data(labeled_datasets)
              THEN /\ ret' = Raised("undersample_labeled_datasets",
                                    "No labeled data has been provided!")
                   /\ UNCHANGED labeled_datasets
              ELSE \E out \in undersample_outcomes(labeled_datasets, k_given, k_arg) :
                    /\ labeled_datasets' = out.labeled
                    /\ ret' = Returned("undersample_labeled_datasets",
                                       [arg |-> arg, copies |-> out.copies])
    /\ UNCHANGED <<unlabeled_datasets, models, query_function, hashes, loop_vars>>

\* --------------------------------------------------------------- rebuilding
\* rebuild_models(undersample_first): the datasets trained on (lines 208-213)
\* and the models built from them (lines 216-220)
rebuild_models(datasets) == train_models(datasets)

RebuildModels ==
    /\ Idle
    /\ \E undersample_first \in BOOLEAN :
        IF undersample_first
        THEN IF ~has_labeled_data(labeled_datasets)
             THEN /\ ret' = Raised("rebuild_models",
                                   "No labeled data has been provided!")
                  /\ UNCHANGED <<labeled_datasets, models>>
             ELSE \E out \in undersample_outcomes(labeled_datasets, FALSE, 0) :
                    /\ labeled_datasets' = out.labeled
                    /\ models' = rebuild_models(out.copies)
                    /\ ret' = Returned("rebuild_models", [undersample_first |-> TRUE])
        ELSE /\ models' = rebuild_models(labeled_datasets)
             /\ ret' = Returned("rebuild_models", [undersample_first |-> FALSE])
             /\ UNCHANGED labeled_datasets
    /\ UNCHANGED <<unlabeled_datasets, query_function, hashes, loop_vars>>

\* --------------------------------------------------------- query strategies
\* what self.query_function may be bound to: the constructor's default, the
\* random strategy of lines 191-201, and a strategy of the caller's own
Strategies == {"base_q_function", "get_random_unlabeled_ids", "caller_strategy"}

\* the caller rebinds learner.query_function
AssignQueryFunction ==
    /\ Idle
    /\ \E q \in Strategies \ {query_function} : query_function' = q
    /\ UNCHANGED <<partitions, models, hashes, loop_vars, ret>>

\* get_random_unlabeled_ids as it would be without line 199's ids.remove:
\* the identifiers are drawn with replacement
get_random_with_replacement(U, k) ==
    IF k > 0 /\ Len(U[1]) = 0
    THEN {Raised("query_function", "IndexError")}
    ELSE {Returned("query_function", [ids |-> s]) : s \in [1..k -> IdSet(U[1])]}

\* get_random_unlabeled_ids(k): every list it can return; random.choice
\* raises IndexError once the list of identifiers is used up
get_random_unlabeled_ids(U, k) ==
    IF k > Len(U[1])
    THEN {Raised("query_function", "IndexError")}
    ELSE {Returned("query_function", [ids |-> s]) :
            s \in DistinctSeqs(IdSet(U[1]), k)}

\* base_q_function as a void strategy: it returns no identifiers
base_q_function_void(k) == {Returned("query_function", [ids |-> <<>>])}

\* base_q_function, lines 68-70
base_q_function(k) == {Raised("query_function", "no query function provided!")}

\* a strategy of the caller's: any list of identifiers, or none (a void strategy)
caller_strategy(k) ==
    {Returned("query_function", [ids |-> s]) : s \in SeqsUpTo(AnyIds, k)}

\* self.query_function(k): the outcomes of the call
call_query_function(q, U, k) ==
    CASE q = "base_q_function" -> base_q_function(k)
      [] q = "get_random_unlabeled_ids" -> get_random_unlabeled_ids(U, k)
      [] q = "caller_strategy" -> caller_strategy(k)

QueryFunction ==
    /\ Idle
    /\ \E k \in 0..MaxBatch :
        \E out \in call_query_function(query_function, unlabeled_datasets, k) :
            ret' = out
    /\ UNCHANGED <<partitions, models, query_function, hashes, loop_vars>>

\* --------------------------------------------------------------- the loop
\* active_learn is entered: line 80.  The call is recorded as running, with
\* the sizes of the labeled partitions at entry and with whether the passes
\* of the loop made so far (each prints line 82) are odd in number
ActiveLearnCall ==
    /\ Idle
    /\ \E N \in 0..MaxBudget, b \in 0..MaxBatch, flag \in BOOLEAN :
        /\ num_examples_to_label' = N
        /\ num_to_label_at_each_iteration' = b
        /\ rebuild_models_at_each_iter' = flag
    /\ labeled_so_far' = 0
    /\ pc' = "while"
    /\ ret' = Returned("active_learn",
                        [running |-> TRUE,
                         odd_pass |-> FALSE,
                         labeled_at_entry |->
                            [i \in Spaces |-> Len(labeled_datasets[i])]])
    /\ UNCHANGED <<partitions, models, query_function, hashes>>

\* the test of the while loop with <= for <
loop_continues_once_more(so_far, budget) == so_far <= budget

\* the test of the while loop, line 81
loop_continues(so_far, budget) == so_far < budget

\* one pass of the loop body, lines 83-96: the partitions and models after it
loop_body(U, L, M, example_ids_to_label, flag) ==
    LET P == IF example_ids_to_label # <<>>
             THEN label_instances_in_all_datasets(U, L, example_ids_to_label)
             ELSE [unlabeled |-> U, labeled |-> L]
    IN [unlabeled |-> P.unlabeled,
        labeled |-> P.labeled,
        models |-> IF flag THEN rebuild_models(P.labeled) ELSE M]

ResetLoop ==
    /\ pc' = "idle"
    /\ num_examples_to_label' = 0
    /\ num_to_label_at_each_iteration' = 0
    /\ rebuild_models_at_each_iter' = TRUE
    /\ labeled_so_far' = 0

ActiveLearnIterate ==
    /\ pc = "while"
    /\ loop_continues(labeled_so_far, num_examples_to_label)
    /\ \E out \in call_query_function(query_function, unlabeled_datasets,
                                      num_to_label_at_each_iteration) :
        IF out.raised # ""
        THEN /\ ret' = Raised("active_learn", out.raised)
             /\ ResetLoop
             /\ UNCHANGED <<partitions, models>>
        ELSE LET B == loop_body(unlabeled_datasets, labeled_datasets, models,
                                out.value.ids, rebuild_models_at_each_iter)
             IN /\ unlabeled_datasets' = B.unlabeled
                /\ labeled_datasets' = B.labeled
                /\ models' = B.models
                /\ labeled_so_far' = labeled_so_far + num_to_label_at_each_iteration
                /\ ret' = [ret EXCEPT !.value.odd_pass = ~@]
                /\ UNCHANGED <<pc, num_examples_to_label,
                               num_to_label_at_each_iteration,
                               rebuild_models_at_each_iter>>
    /\ UNCHANGED <<query_function, hashes>>

\* active_learn without its last rebuild: the models the loop left
no_final_rebuild(L, M) == M

\* the models active_learn leaves when its loop is over, line 98
final_rebuild(L, M) == rebuild_models(L)

ActiveLearnReturn ==
    /\ pc = "while"
    /\ ~loop_continues(labeled_so_far, num_examples_to_label)
    /\ models' = final_rebuild(labeled_datasets, models)
    /\ ret' = Returned("active_learn", [running |-> FALSE])
    /\ ResetLoop
    /\ UNCHANGED <<partitions, query_function, hashes>>

Next ==
    \/ LabelInstancesInAllDatasets
    \/ LabelAllData
    \/ UnlabelInstances
    \/ PickBalancedInitialTrainingSet
    \/ AssignQueryFunction
    \/ ActiveLearnCall
    \/ ActiveLearnIterate
    \/ ActiveLearnReturn

Spec == Init /\ [][Next]_vars

\* the loop and its strategies
NextLoop ==
    \/ AssignQueryFunction
    \/ QueryFunction
    \/ ActiveLearnCall
    \/ ActiveLearnIterate
    \/ ActiveLearnReturn

SpecLoop == Init /\ [][NextLoop]_vars

\* --------------------------------------------------------------- prediction
Min(a, b) == IF a < b THEN a ELSE b

\* votes.count(x)
count_in_list(votes, x) == Cardinality({j \in DOMAIN votes : votes[j] = x})

\* _arg_max's loop, lines 272-275, from pass i on; f maps an element to its
\* score, and indices are Python's (the first element has index 0)
RECURSIVE arg_max_loop(_, _, _, _, _)
arg_max_loop(ls, f, i, return_index, max_val) ==
    IF i >= Len(ls) - 1 THEN return_index
    ELSE IF f[ls[i + 2]] > max_val
         THEN arg_max_loop(ls, f, i + 1, i, f[ls[i + 2]])
         ELSE arg_max_loop(ls, f, i + 1, return_index, max_val)

\* _arg_max(ls, f), lines 268-276, on a non-empty list
_arg_max(ls, f) == arg_max_loop(ls, f, 0, 0, f[ls[1]])

\* every list that holds each element of S once
RECURSIVE Orders(_)
Orders(S) ==
    IF S = {} THEN {<<>>}
    ELSE UNION {{<<x>> \o rest : rest \in Orders(S \ {x})} : x \in S}

\* list(set(votes)): the distinct votes, in any order
vote_sets(votes) == Orders(Range(votes))

\* majority_predict, lines 127-129, on the votes and an order of their set
majority_vote(votes, vote_set) ==
    LET f == [x \in Range(vote_set) |-> count_in_list(votes, x)]
    IN vote_set[_arg_max(vote_set, f) + 1]

RECURSIVE max_of(_)
max_of(votes) ==
    IF Len(votes) = 1 THEN votes[1]
    ELSE LET m == max_of(Tail(votes))
         IN IF votes[1] > m THEN votes[1] ELSE m

\* the test of line 124 as it would be if it asked only whether models is None
has_models_not_none == ~models.is_none

\* `self.models and len(self.models)`, lines 124 and 139
has_models == ~models.is_none /\ Len(models.list) > 0

\* the votes of zip(self.models, X) for a list X of n_x feature vectors: each
\* model predicts some label
possible_votes(n_x) == [1..Min(Len(models.list), n_x) -> Labels]

\* majority_predict(X), lines 118-131
MajorityPredict ==
    /\ Idle
    /\ \E n_x \in 0..MaxModels :
        IF ~has_models
        THEN ret' = Raised("majority_predict", "No models have been initialized.")
        ELSE \E votes \in possible_votes(n_x) :
                IF votes = <<>>
                THEN ret' = Raised("majority_predict", "IndexError")
                ELSE \E vote_set \in vote_sets(votes) :
                        ret' = Returned("majority_predict",
                                        [votes |-> votes,
                                         vote_set |-> vote_set,
                                         label |-> majority_vote(votes, vote_set)])
    /\ UNCHANGED <<partitions, models, query_function, hashes, loop_vars>>

\* cautious_predict(X), lines 134-142; max() of no votes raises ValueError
CautiousPredict ==
    /\ Idle
    /\ \E n_x \in 0..MaxModels :
        IF ~has_models
        THEN ret' = Raised("cautious_predict", "No models have been initialized.")
        ELSE \E votes \in possible_votes(n_x) :
                IF votes = <<>>
                THEN ret' = Raised("cautious_predict", "ValueError")
                ELSE ret' = Returned("cautious_predict",
                                     [votes |-> votes, label |-> max_of(votes)])
    /\ UNCHANGED <<partitions, models, query_function, hashes, loop_vars>>

\* predict(X) on a controller whose predict the caller has not rebound: line
\* 65 binds the attribute to majority_predict, which hides the method of
\* lines 144-149
Predict ==
    /\ Idle
    /\ \E n_x \in 0..MaxModels :
        IF ~has_models
        THEN ret' = Raised("predict", "No models have been initialized.")
        ELSE \E votes \in possible_votes(n_x) :
                IF votes = <<>>
                THEN ret' = Raised("predict", "IndexError")
                ELSE \E vote_set \in vote_sets(votes) :
                        ret' = Returned("predict",
                                        [votes |-> votes,
                                         vote_set |-> vote_set,
                                         label |-> majority_vote(votes, vote_set)])
    /\ UNCHANGED <<partitions, models, query_function, hashes, loop_vars>>

\* BaseLearner.__init__ given a list of models, or none
InitPredict ==
    /\ unlabeled_datasets = [i \in Spaces |-> [id \in Ids |-> Instance(id)]]
    /\ labeled_datasets = [i \in Spaces |-> <<>>]
    /\ models \in {NoModels} \cup {prebuilt_models(n) : n \in 0..MaxModels}
    /\ div_hash = <<>>
    /\ dist_hash = <<>>
    /\ query_function = "base_q_function"
    /\ pc = "idle"
    /\ num_examples_to_label = 0
    /\ num_to_label_at_each_iteration = 0
    /\ rebuild_models_at_each_iter = TRUE
    /\ labeled_so_far = 0
    /\ ret = Returned("__init__", Nothing)

NextPredict ==
    \/ MajorityPredict
    \/ CautiousPredict

SpecPredict == InitPredict /\ [][NextPredict]_vars

\* ------------------------------------------------------------- the caches
CacheIds == 1..MaxCacheId

\* the example `id` as feature space i holds it: what a lookup reads of it
example(i, id) == [id |-> id, point |-> <<i, id>>]

\* the dataset of feature space i that holds the examples named in D
dataset_of(i, D) == [j \in 1..Cardinality(D) |-> example(i, SetToSeq(D)[j])]

\* hash[key] = value
Put(hash, key, value) ==
    [k \in DOMAIN hash \cup {key} |-> IF k = key THEN value ELSE hash[k]]

\* _compute_cos as it would be without the test of line 263: the kernel is
\* evaluated on every call
_compute_cos_uncached(hash, model, x, y) ==
    LET key == <<x.id, y.id>>
        after == Put(hash, key,
                     compute_cos_between_examples(model, x.point, y.point))
    IN [hash |-> after, value |-> after[key], calls |-> <<key>>]

\* _compute_cos(model, x, y), lines 262-265: the hash after the call, the
\* value returned, and the pairs the kernel was evaluated on, in order
_compute_cos(hash, model, x, y) ==
    LET key == <<x.id, y.id>>
        miss == key \notin DOMAIN hash
        after == IF miss
                 THEN Put(hash, key,
                          compute_cos_between_examples(model, x.point, y.point))
                 ELSE hash
    IN [hash |-> after, value |-> after[key],
        calls |-> IF miss THEN <<key>> ELSE <<>>]

\* _compute_div's loop, lines 252-257, from the j-th example of data on
RECURSIVE compute_div_loop(_, _, _, _, _, _, _)
compute_div_loop(hash, model, instances, x, j, sum, calls) ==
    IF j > Len(instances) THEN [hash |-> hash, value |-> sum, calls |-> calls]
    ELSE LET y == instances[j]
             key == <<x.id, y.id>>
             miss == key \notin DOMAIN hash
             after == IF miss
                      THEN Put(hash, key,
                               compute_cos_between_examples(model, x.point, y.point))
                      ELSE hash
         IN compute_div_loop(after, model, instances, x, j + 1, sum + after[key],
                             IF miss THEN Append(calls, key) ELSE calls)

\* _compute_div(model, data, x), lines 250-258
_compute_div(hash, model, instances, x) ==
    compute_div_loop(hash, model, instances, x, 1, 0, <<>>)

\* _get_dist_from_l's loop, lines 242-246; min_dist is None or a number, and
\* `not min_dist` holds of None and of 0
RECURSIVE get_dist_loop(_, _, _, _, _, _, _)
get_dist_loop(hash, model, instances, x, j, min_dist, calls) ==
    IF j > Len(instances) THEN [hash |-> hash, value |-> min_dist, calls |-> calls]
    ELSE LET y == instances[j]
             key == <<x.id, y.id>>
             miss == key \notin DOMAIN hash
             after == IF miss
                      THEN Put(hash, key,
                               compute_dist_between_examples(model, x.point, y.point))
                      ELSE hash
             not_min_dist == min_dist.is_none \/ min_dist.number = 0
             next_min == IF not_min_dist \/ after[key] < min_dist.number
                         THEN [is_none |-> FALSE, number |-> after[key]]
                         ELSE min_dist
         IN get_dist_loop(after, model, instances, x, j + 1, next_min,
                          IF miss THEN Append(calls, key) ELSE calls)

\* _get_dist_from_l(model, data, x), lines 240-247
_get_dist_from_l(hash, model, instances, x) ==
    get_dist_loop(hash, model, instances, x, 1, [is_none |-> TRUE, number |-> 0],
                  <<>>)

\* a lookup is made with a model of the controller, on examples of that
\* model's feature space
ModelIndices == IF models.is_none THEN {} ELSE DOMAIN models.list

ComputeCos ==
    /\ Idle
    /\ \E i \in ModelIndices, x_id \in CacheIds, y_id \in CacheIds :
        LET out == _compute_cos(div_hash, models.list[i],
                                example(i, x_id), example(i, y_id))
        IN /\ Cardinality(DOMAIN out.hash) + Cardinality(DOMAIN dist_hash)
                <= MaxCacheEntries
           /\ div_hash' = out.hash
           /\ ret' = Returned("_compute_cos",
                              [model |-> i, x |-> x_id, y |-> y_id,
                               result |-> out.value, calls |-> out.calls])
    /\ UNCHANGED <<partitions, models, query_function, dist_hash, loop_vars>>

ComputeDiv ==
    /\ Idle
    /\ \E i \in ModelIndices, x_id \in CacheIds, D \in SUBSET CacheIds :
        LET out == _compute_div(div_hash, models.list[i],
                                dataset_of(i, D), example(i, x_id))
        IN /\ Cardinality(DOMAIN out.hash) + Cardinality(DOMAIN dist_hash)
                <= MaxCacheEntries
           /\ div_hash' = out.hash
           /\ ret' = Returned("_compute_div",
                              [model |-> i, x |-> x_id, data |-> SetToSeq(D),
                               result |-> out.value, calls |-> out.calls])
    /\ UNCHANGED <<partitions, models, query_function, dist_hash, loop_vars>>

GetDistFromL ==
    /\ Idle
    /\ \E i \in ModelIndices, x_id \in CacheIds, D \in SUBSET CacheIds :
        LET out == _get_dist_from_l(dist_hash, models.list[i],
                                    dataset_of(i, D), example(i, x_id))
        IN /\ Cardinality(DOMAIN out.hash) + Cardinality(DOMAIN div_hash)
                <= MaxCacheEntries
           /\ dist_hash' = out.hash
           /\ ret' = Returned("_get_dist_from_l",
                              [model |-> i, x |-> x_id, data |-> SetToSeq(D),
                               result |-> out.value, calls |-> out.calls])
    /\ UNCHANGED <<partitions, models, query_function, div_hash, loop_vars>>

\* the controller and its similarity cache
NextCache ==
    \/ LabelAllData
    \/ RebuildModels
    \/ ComputeCos
    \/ ComputeDiv

SpecCache == Init /\ [][NextCache]_vars

\* ------------------------------------------------------------------ claims
\* steps of active_learn, read off a pair of states
ReturnStep == pc = "while" /\ pc' = "idle" /\ ret'.raised = ""
RaiseStep == pc = "while" /\ pc' = "idle" /\ ret'.raised # ""
LoopPass == pc = "while" /\ pc' = "while"

CeilDiv(n, d) == (n + d - 1) \div d

\* C1 (lockstep): in every reachable state, after any sequence of
\* label_instances_in_all_datasets, label_all_data,
\* pick_balanced_initial_training_set, unlabel_instances and active_learn
\* calls, every two feature spaces hold the same identifiers in their labeled
\* partitions and the same identifiers in their unlabeled partitions.
C1_Lockstep ==
    \A i, j \in Spaces :
        /\ IdSet(labeled_datasets[i]) = IdSet(labeled_datasets[j])
        /\ IdSet(unlabeled_datasets[i]) = IdSet(unlabeled_datasets[j])

\* C1's case: examples were labeled by active_learn and some then unlabeled,
\* leaving both partitions of every space non-empty
C1_Witness ==
    /\ ret.op = "unlabel_instances"
    /\ ~models.is_none
    /\ \A i \in Spaces : labeled_datasets[i] # <<>> /\ unlabeled_datasets[i] # <<>>
    /\ IdSet(unlabeled_datasets[NumSpaces]) # {}
    /\ 1 \in IdSet(labeled_datasets[1]) /\ 2 \in IdSet(unlabeled_datasets[NumSpaces])

\* C2 (conservation): in every feature space the labeled and the unlabeled
\* partition together hold as many examples after every labeling and
\* unlabeling operation as the pool held at construction (NumIds), whatever
\* identifier list was passed: identifiers the source partition does not
\* hold and repeated identifiers included.
C2_Conservation ==
    \A i \in Spaces :
        Len(labeled_datasets[i]) + Len(unlabeled_datasets[i]) = NumIds

\* C2's case: unlabel_instances was called, on a controller that holds
\* labeled examples, with a list that names an identifier twice which the
\* labeled partition does not hold
C2_Witness ==
    /\ ret.op = "unlabel_instances"
    /\ ret.value.repeated
    /\ ret.value.absent
    /\ labeled_datasets[1] # <<>>

\* C3 (budget): when active_learn(N, b) with b >= 1 returns under the
\* strategy that hands back exactly b distinct unlabeled identifiers per call
\* (get_random_unlabeled_ids, which needs the pool to hold them), every
\* feature space has exactly ceil(N/b)*b more labeled and ceil(N/b)*b fewer
\* unlabeled examples than when the call was entered.
C3_Budget ==
    [][(/\ ReturnStep
        /\ query_function = "get_random_unlabeled_ids"
        /\ num_to_label_at_each_iteration >= 1)
       => \A i \in Spaces :
            LET moved == CeilDiv(num_examples_to_label,
                                 num_to_label_at_each_iteration)
                            * num_to_label_at_each_iteration
            IN /\ Len(labeled_datasets'[i]) = ret.value.labeled_at_entry[i] + moved
               /\ Len(unlabeled_datasets'[i])
                    = NumIds - ret.value.labeled_at_entry[i] - moved]_vars

\* C3's case: a call with a budget that is no multiple of the batch size
\* (N = 1, b = 2) has labeled its ceil(N/b)*b = 2 examples and is about to
\* return
C3_Witness ==
    /\ pc = "while"
    /\ query_function = "get_random_unlabeled_ids"
    /\ num_examples_to_label = 1
    /\ num_to_label_at_each_iteration = 2
    /\ labeled_so_far = 2
    /\ Len(labeled_datasets[1]) = ret.value.labeled_at_entry[1] + 2

NoQueryFunction == "no query function provided!"

\* a direct call of self.query_function
QueryStep == pc = "idle" /\ pc' = "idle" /\ ret' # ret /\ ret'.op = "query_function"

DefaultUndersampled ==
    /\ ret.op = "undersample_labeled_datasets"
    /\ ret.raised = ""
    /\ ~ret.value.arg.k_given

\* the copies hold, in every space, m majority and m minority examples and
\* the identifiers of space 0's copy, all of them labeled examples
BalancedCopies(m) ==
    \A i \in Spaces :
        /\ number_of_majority_examples(ret.value.copies[i]) = m
        /\ number_of_minority_examples(ret.value.copies[i]) = m
        /\ IdSet(ret.value.copies[i]) = IdSet(ret.value.copies[1])
        /\ IdSet(ret.value.copies[i]) \subseteq IdSet(labeled_datasets[i])

C10_Frame ==
    [][ret'.op \in {"undersample_labeled_datasets", "rebuild_models"}
       => UNCHANGED partitions]_vars

\* C10's case: undersample_labeled_datasets(k) with k in range has returned
\* copies that lack an example the labeled partitions still hold
C10_Witness ==
    /\ ret.op = "undersample_labeled_datasets"
    /\ ret.raised = ""
    /\ ret.value.arg.k_given
    /\ ret.value.arg.k > 0
    /\ ret.value.arg.k < number_of_majority_examples(labeled_datasets[1])
    /\ \A i \in Spaces : Len(ret.value.copies[i]) < Len(labeled_datasets[i])

\* C6 (majority aggregation): whatever the models predict and in whatever
\* order the distinct predicted values are enumerated, the label
\* majority_predict returns has a vote count that no predicted label exceeds.
C6_Majority ==
    (ret.op = "majority_predict" /\ ret.raised = "") =>
        \A v \in Range(ret.value.votes) :
            count_in_list(ret.value.votes, ret.value.label)
                >= count_in_list(ret.value.votes, v)

\* the last call was _compute_cos, made with models[ret.value.model]
CosServed == ret.op = "_compute_cos" /\ ret.raised = ""

\* what model i of the controller computes for the pair a lookup was made on
CosOf(i) ==
    compute_cos_between_examples(models.list[i],
                                 example(ret.value.model, ret.value.x).point,
                                 example(ret.value.model, ret.value.y).point)

\* C7 (cache invalidation on rebuild): the value a _compute_cos lookup serves
\* is a value that a model the controller holds now computes for the pair:
\* after rebuild_models, no value of a model that the rebuild replaced is
\* served.
C7_NoStaleValue ==
    CosServed => \E i \in DOMAIN models.list : ret.value.result = CosOf(i)

\* C8 (cache scoped per model): the value a _compute_cos lookup serves is the
\* value that the model passed to the lookup computes for the pair, never one
\* that another model computed.
C8_ValueOfModelPassed ==
    CosServed => ret.value.result = CosOf(ret.value.model)

\* the controller under resampling: labeling, undersampling and rebuilding
NextUndersample ==
    \/ LabelInstancesInAllDatasets
    \/ UnlabelInstances
    \/ UndersampleLabeledDatasets
    \/ RebuildModels

SpecUndersample == Init /\ [][NextUndersample]_vars

\* BaseLearner.__init__ given no models, or an empty list of them
InitUntrained ==
    /\ unlabeled_datasets = [i \in Spaces |-> [id \in Ids |-> Instance(id)]]
    /\ labeled_datasets = [i \in Spaces |-> <<>>]
    /\ models \in {NoModels, prebuilt_models(0)}
    /\ div_hash = <<>>
    /\ dist_hash = <<>>
    /\ query_function = "base_q_function"
    /\ pc = "idle"
    /\ num_examples_to_label = 0
    /\ num_to_label_at_each_iteration = 0
    /\ rebuild_models_at_each_iter = TRUE
    /\ labeled_so_far = 0
    /\ ret = Returned("__init__", Nothing)

\* prediction on a controller that starts without models and may train them
NextUntrained ==
    \/ LabelAllData
    \/ Predict
    \/ MajorityPredict
    \/ CautiousPredict
    \/ RebuildModels

SpecUntrained == InitUntrained /\ [][NextUntrained]_vars

NoModelsInitialized == "No models have been initialized."

\* a call of one of the three prediction entry points
PredictStep == ret' # ret /\ ret'.op \in {"predict", "majority_predict", "cautious_predict"}

\* C11 (prediction before training): while models is None or an empty list,
\* every call of majority_predict(X), of cautious_predict(X) and of the
\* default predict(X) ends in "No models have been initialized.", and leaves
\* the partitions, the models and the two hashes as they were.
C11_Untrained ==
    [][(PredictStep /\ (models.is_none \/ models.list = <<>>))
       => /\ ret'.raised = NoModelsInitialized
          /\ UNCHANGED <<partitions, models, hashes>>]_vars

\* C11's case: the default predict has ended in the error on a controller
\* that was given an empty list of models
C11_Witness ==
    /\ ret = Raised("predict", NoModelsInitialized)
    /\ ~models.is_none
    /\ models.list = <<>>

\* ------------------------------------------------- labeling and unlabeling
\* a label is imputed to an example: its working label becomes lbl and it is
\* flagged as synthetic, in the dataset that holds it
assume_label(instances, id, lbl) ==
    [j \in DOMAIN instances |->
        IF instances[j].id = id
        THEN [instances[j] EXCEPT !.lbl = lbl, !.has_synthetic_label = TRUE]
        ELSE instances[j]]

\* the examples of `instances` that a list of identifiers does not name
others(instances, S) == SelectSeq(instances, LAMBDA inst : inst.id \notin S)

\* the identifiers of the examples of `instances` flagged as synthetic
synthetic_ids(instances) ==
    {instances[j].id : j \in {n \in DOMAIN instances : instances[n].has_synthetic_label}}

\* a label is imputed to one example of the pool, in every feature space
AssumeLabel ==
    /\ Idle
    /\ \E id \in Ids, lbl \in {-1, 1} :
        /\ unlabeled_datasets' =
              [i \in Spaces |-> assume_label(unlabeled_datasets[i], id, lbl)]
        /\ labeled_datasets' =
              [i \in Spaces |-> assume_label(labeled_datasets[i], id, lbl)]
    /\ UNCHANGED <<models, query_function, hashes, loop_vars, ret>>

\* label_instances_in_all_datasets(S) for a set S of identifiers that the
\* unlabeled partitions hold; the call is recorded with S and with the
\* identifiers each partition held when it was made
LabelUnlabeled ==
    /\ Idle
    /\ \E S \in SUBSET IdSet(unlabeled_datasets[1]) :
        LET P == label_instances_in_all_datasets(
                     unlabeled_datasets, labeled_datasets, SetToSeq(S))
        IN /\ unlabeled_datasets' = P.unlabeled
           /\ labeled_datasets' = P.labeled
           /\ ret' = Returned("label_instances_in_all_datasets",
                              [ids |-> S,
                               labeled_before |->
                                  [i \in Spaces |-> IdSet(labeled_datasets[i])],
                               unlabeled_before |->
                                  [i \in Spaces |-> IdSet(unlabeled_datasets[i])]])
    /\ UNCHANGED <<models, query_function, hashes, loop_vars>>

\* unlabel_instances(S) for the set S that the last call labeled; the call is
\* recorded with S and with the examples of S that carried a synthetic label
UnlabelLabeled ==
    /\ Idle
    /\ ret.op = "label_instances_in_all_datasets"
    /\ LET S == ret.value.ids
           P == unlabel_instances(unlabeled_datasets, labeled_datasets, SetToSeq(S))
       IN /\ unlabeled_datasets' = P.unlabeled
          /\ labeled_datasets' = P.labeled
          /\ ret' = Returned("unlabel_instances",
                             [ids |-> S,
                              synthetic |-> S \cap synthetic_ids(labeled_datasets[1])])
    /\ UNCHANGED <<models, query_function, hashes, loop_vars>>

\* labeling, imputing labels, and giving labels back
NextRelabel ==
    \/ AssumeLabel
    \/ LabelUnlabeled
    \/ UnlabelLabeled

SpecRelabel == Init /\ [][NextRelabel]_vars

LabelStep == ret' # ret /\ ret'.op = "label_instances_in_all_datasets"
UnlabelStep == ret.op = "label_instances_in_all_datasets" /\ ret'.op = "unlabel_instances"

\* C12 (unlabel reverts label): for every set S of identifiers of the
\* unlabeled partitions, label_instances_in_all_datasets(S) followed by
\* unlabel_instances(S) leaves every feature space with the labeled and the
\* unlabeled identifiers it had before the labeling; every example of S ends
\* unlabeled, its synthetic flag cleared and its working label its ground
\* truth; and neither call changes a labeled example that S does not name.
C12_UnlabelReverts ==
    [][/\ LabelStep =>
            \A i \in Spaces :
                others(labeled_datasets'[i], ret'.value.ids) = labeled_datasets[i]
       /\ UnlabelStep =>
            \A i \in Spaces :
                /\ IdSet(labeled_datasets'[i]) = ret.value.labeled_before[i]
                /\ IdSet(unlabeled_datasets'[i]) = ret.value.unlabeled_before[i]
                /\ labeled_datasets'[i] = others(labeled_datasets[i], ret.value.ids)
                /\ \A j \in DOMAIN unlabeled_datasets'[i] :
                      LET inst == unlabeled_datasets'[i][j]
                      IN inst.id \in ret.value.ids =>
                            /\ ~inst.has_synthetic_label
                            /\ inst.lbl = label(inst)]_vars

\* C12's case: unlabel_instances(S) has given back an example that carried a
\* synthetic label, while a labeled example outside S still carries one
C12_Witness ==
    /\ ret.op = "unlabel_instances"
    /\ ret.raised = ""
    /\ ret.value.synthetic # {}
    /\ \A i \in Spaces :
          /\ synthetic_ids(labeled_datasets[i]) # {}
          /\ ret.value.synthetic \subseteq IdSet(unlabeled_datasets[i])

\* ------------------------------------------------------------ the bootstrap
\* the bootstrap on pools of every class composition
NextBootstrap ==
    \/ AssumeLabel
    \/ PickBalancedInitialTrainingSet
    \/ UnlabelInstances

SpecBootstrap == Init /\ [][NextBootstrap]_vars

\* a call of pick_balanced_initial_training_set
PickStep == ret' # ret /\ ret'.op = "pick_balanced_initial_training_set"

\* the identifiers that left the unlabeled partition of space i on a step
moved_out(i) == IdSet(unlabeled_datasets[i]) \ IdSet(unlabeled_datasets'[i])

\* the identifiers that entered the labeled partition of space i on a step
moved_in(i) == IdSet(labeled_datasets'[i]) \ IdSet(labeled_datasets[i])

NextLookup ==
    \/ LabelAllData
    \/ RebuildModels
    \/ ComputeCos
    \/ ComputeDiv
    \/ GetDistFromL

SpecLookup == Init /\ [][NextLookup]_vars

DivOps == {"_compute_cos", "_compute_div"}

\* a lookup in div_hash, and one in dist_hash
DivStep == ret' # ret /\ ret'.op \in DivOps
DistStep == ret' # ret /\ ret'.op = "_get_dist_from_l"

\* a list names no pair twice
NoRepeat(calls) == \A a, b \in DOMAIN calls : a # b => calls[a] # calls[b]

\* the entries of a hash stay as they are, and the new ones are `calls`
Extends(hash, after, calls) ==
    /\ DOMAIN after = DOMAIN hash \cup Range(calls)
    /\ \A key \in DOMAIN hash : after[key] = hash[key]

\* the pairs a recorded lookup reads
PairsRead(call) ==
    IF call.op = "_compute_cos" THEN {<<call.value.x, call.value.y>>}
    ELSE {<<call.value.x, call.value.data[j]>> : j \in DOMAIN call.value.data}

\* two recorded calls are the same lookup: same method, model and arguments
SameLookup(c, d) ==
    /\ c.op = d.op
    /\ c.value.model = d.value.model
    /\ c.value.x = d.value.x
    /\ IF c.op = "_compute_cos" THEN c.value.y = d.value.y
       ELSE c.value.data = d.value.data

\* C14 (cache hit): a lookup evaluates the kernel only on pairs its hash does
\* not hold, on each of them once, and stores what it computed; no step, a
\* rebuild included, removes or changes an entry, so that a pair is computed
\* once in the life of the controller.  A lookup that directly follows a
\* lookup which read the same pairs evaluates nothing, and when the two are
\* the same lookup (method, model, arguments) returns the same value; this
\* holds of _compute_cos and _compute_div on div_hash and of
\* _get_dist_from_l on dist_hash.
C14_CacheHit ==
    [][/\ Extends(div_hash, div_hash', IF DivStep THEN ret'.value.calls ELSE <<>>)
       /\ Extends(dist_hash, dist_hash', IF DistStep THEN ret'.value.calls ELSE <<>>)
       /\ DivStep =>
            /\ NoRepeat(ret'.value.calls)
            /\ Range(ret'.value.calls) \cap DOMAIN div_hash = {}
            /\ Range(ret'.value.calls) \subseteq PairsRead(ret')
            /\ PairsRead(ret') \subseteq DOMAIN div_hash'
            /\ (ret.op \in DivOps /\ PairsRead(ret') \subseteq PairsRead(ret))
                  => ret'.value.calls = <<>>
            /\ (ret.op \in DivOps /\ SameLookup(ret, ret'))
                  => ret'.value.result = ret.value.result
       /\ DistStep =>
            /\ NoRepeat(ret'.value.calls)
            /\ Range(ret'.value.calls) \cap DOMAIN dist_hash = {}
            /\ Range(ret'.value.calls) \subseteq PairsRead(ret')
            /\ PairsRead(ret') \subseteq DOMAIN dist_hash'
            /\ (ret.op = "_get_dist_from_l" /\ PairsRead(ret') \subseteq PairsRead(ret))
                  => ret'.value.calls = <<>>
            /\ (ret.op = "_get_dist_from_l" /\ SameLookup(ret, ret'))
                  => ret'.value.result = ret.value.result]_vars

\* C14's case: a _compute_cos lookup has been served from the hash without
\* evaluating the kernel, by a controller whose models were trained on
\* labeled examples
C14_Witness ==
    /\ ret.op = "_compute_cos"
    /\ ret.value.calls = <<>>
    /\ <<ret.value.x, ret.value.y>> \in DOMAIN div_hash
    /\ labeled_datasets[1] # <<>>
    /\ models = train_models(labeled_datasets)

\* ------------------------------------------------------ the default strategy
\* C15 (default strategy): on a controller whose query_function the caller
\* never assigned, a call of the query strategy returns distinct identifiers
\* of the unlabeled partition (a uniform random choice without replacement),
\* so that no call of it, and no pass of active_learn's loop, ends in an error.
C15_DefaultRandom ==
    [][(query_function = "base_q_function" /\ (QueryStep \/ RaiseStep))
       => /\ ret'.raised = ""
          /\ NoRepeat(ret'.value.ids)
          /\ Range(ret'.value.ids) \subseteq IdSet(unlabeled_datasets[1])]_vars

\* ------------------------------------------------------------- the scenario
\* one feature space and a pool of ten examples, five of each class
ScenarioSpaces == 1
ScenarioIds == {1, 2, 3, 4, 5, 6, 7, 8, 10, 13}
ScenarioK == 2
ScenarioBudget == 4
ScenarioBatch == 2

\* BaseLearner.__init__ on the scenario's pool; the caller has assigned the
\* strategy that returns unlabeled identifiers
InitScenario ==
    /\ unlabeled_datasets =
          [i \in 1..ScenarioSpaces |->
              [j \in 1..Cardinality(ScenarioIds) |-> Instance(SetToSeq(ScenarioIds)[j])]]
    /\ labeled_datasets = [i \in 1..ScenarioSpaces |-> <<>>]
    /\ models = NoModels
    /\ div_hash = <<>>
    /\ dist_hash = <<>>
    /\ query_function = "get_random_unlabeled_ids"
    /\ pc = "idle"
    /\ num_examples_to_label = 0
    /\ num_to_label_at_each_iteration = 0
    /\ rebuild_models_at_each_iter = TRUE
    /\ labeled_so_far = 0
    /\ ret = Returned("__init__", Nothing)

\* pick_balanced_initial_training_set(ScenarioK), lines 152-160, as the
\* first call on the controller
ScenarioPick ==
    /\ Idle
    /\ ret.op = "__init__"
    /\ \E minority_ids_to_label \in
              DistinctSeqs(minority_ids(unlabeled_datasets[1]), ScenarioK),
          majority_ids_to_label \in
              DistinctSeqs(majority_ids(unlabeled_datasets[1]), ScenarioK) :
        LET all_ids_to_label == minority_ids_to_label \o majority_ids_to_label
            P == label_instances_in_all_datasets(
                     unlabeled_datasets, labeled_datasets, all_ids_to_label)
        IN /\ unlabeled_datasets' = P.unlabeled
           /\ labeled_datasets' = P.labeled
           /\ ret' = Returned("pick_balanced_initial_training_set",
                              [ids |-> all_ids_to_label])
    /\ UNCHANGED <<models, query_function, hashes, loop_vars>>

\* active_learn(ScenarioBudget, ScenarioBatch) is entered after the bootstrap
ScenarioActiveLearnCall ==
    /\ Idle
    /\ ret.op = "pick_balanced_initial_training_set"
    /\ num_examples_to_label' = ScenarioBudget
    /\ num_to_label_at_each_iteration' = ScenarioBatch
    /\ \E flag \in BOOLEAN : rebuild_models_at_each_iter' = flag
    /\ labeled_so_far' = 0
    /\ pc' = "while"
    /\ ret' = Returned("active_learn",
                        [running |-> TRUE,
                         odd_pass |-> FALSE,
                         labeled_at_entry |->
                            [i \in DOMAIN labeled_datasets |->
                                Len(labeled_datasets[i])]])
    /\ UNCHANGED <<partitions, models, query_function, hashes>>

NextScenario ==
    \/ ScenarioPick
    \/ ScenarioActiveLearnCall
    \/ ActiveLearnIterate
    \/ ActiveLearnReturn

SpecScenario == InitScenario /\ [][NextScenario]_vars

\* the bootstrap has returned and active_learn is not entered yet
AfterPick == ret.op = "pick_balanced_initial_training_set" /\ ret.raised = ""

\* active_learn has returned
AfterActiveLearn == ret = Returned("active_learn", [running |-> FALSE])

\* after the bootstrap: four labeled examples, two of each class, six unlabeled
BootstrapLabeled ==
    /\ Len(labeled_datasets[1]) = 4
    /\ number_of_minority_examples(labeled_datasets[1]) = 2
    /\ number_of_majority_examples(labeled_datasets[1]) = 2
    /\ Len(unlabeled_datasets[1]) = 6

\* C16 as claimed (scenario): pick_balanced_initial_training_set(2) on the
\* pool of ten labels four examples, two of each class, and leaves six; the
\* active_learn(4, 2) that follows ends with ten labeled examples, none
\* unlabeled, and a model rebuilt on the labeled partition.
C16_Original ==
    /\ AfterPick => BootstrapLabeled
    /\ AfterActiveLearn =>
          /\ Len(labeled_datasets[1]) = 10
          /\ Len(unlabeled_datasets[1]) = 0
          /\ models = train_models(labeled_datasets)

\* C16 as amended: the same bootstrap; the active_learn(4, 2) that follows
\* labels four more examples and ends with eight labeled examples, two
\* unlabeled, and a model rebuilt on the labeled partition.
C16_Scenario ==
    /\ AfterPick => BootstrapLabeled
    /\ AfterActiveLearn =>
          /\ Len(labeled_datasets[1]) = 8
          /\ Len(unlabeled_datasets[1]) = 2
          /\ models = train_models(labeled_datasets)

\* C16's case: the scenario has run to the return of active_learn
C16_Witness ==
    /\ AfterActiveLearn
    /\ Len(labeled_datasets[1]) = 8
    /\ ~models.is_none

\* -------------------------------------------------------------- termination
\* a call of active_learn that is running goes on running: the interpreter
\* takes the next pass of the loop, or the return, when there is one to take
SpecLoopFair ==
    /\ SpecLoop
    /\ WF_vars(ActiveLearnIterate)
    /\ WF_vars(ActiveLearnReturn)

\* C17 (loop termination): a running active_learn(N, b), for every budget N
\* and every batch size b >= 0 (b = 0 with N > 0 included), under a strategy
\* whose calls always return, eventually does its final rebuild and returns.
C17_Terminates ==
    (pc = "while" /\ query_function = "caller_strategy")
        ~> (pc = "idle" /\ ret = Returned("active_learn", [running |-> FALSE]))

\* ------------------------------------------------------- minimum distance
\* the examples of a reference set, and a candidate that is none of them
Refs == 1..MaxRefs
Candidate == MaxRefs + 1

\* a controller with one model whose dist_hash holds the distance of the
\* candidate to every reference example, as earlier lookups stored them; the
\* distances are any values of 0..MaxDist
InitMinDist ==
    /\ unlabeled_datasets = [i \in Spaces |-> [id \in Ids |-> Instance(id)]]
    /\ labeled_datasets = [i \in Spaces |-> <<>>]
    /\ models = prebuilt_models(1)
    /\ div_hash = <<>>
    /\ dist_hash \in [{<<Candidate, y>> : y \in Refs} -> 0..MaxDist]
    /\ query_function = "base_q_function"
    /\ pc = "idle"
    /\ num_examples_to_label = 0
    /\ num_to_label_at_each_iteration = 0
    /\ rebuild_models_at_each_iter = TRUE
    /\ labeled_so_far = 0
    /\ ret = Returned("__init__", Nothing)

\* _get_dist_from_l(model, data, x) for the candidate x and a dataset that
\* holds a non-empty set of reference examples, in any order
MinDist ==
    /\ Idle
    /\ \E D \in SUBSET Refs \ {{}} :
        \E order \in Orders(D) :
            LET out == _get_dist_from_l(
                           dist_hash, models.list[1],
                           [j \in DOMAIN order |-> example(1, order[j])],
                           example(1, Candidate))
            IN /\ dist_hash' = out.hash
               /\ ret' = Returned("_get_dist_from_l",
                                  [model |-> 1, x |-> Candidate, data |-> order,
                                   result |-> out.value, calls |-> out.calls])
    /\ UNCHANGED <<partitions, models, query_function, div_hash, loop_vars>>

NextMinDist ==
    \/ MinDist

SpecMinDist == InitMinDist /\ [][NextMinDist]_vars

\* the least number of a non-empty set
MinOf(S) == CHOOSE n \in S : \A k \in S : n <= k

\* C18 (minimum distance): for the candidate x and every non-empty reference
\* set, visited in any order, with distances that are any of 0..MaxDist,
\* _get_dist_from_l returns the least of the distances between x and the
\* examples of the set.
C18_MinDist ==
    ret.op = "_get_dist_from_l" =>
        /\ ~ret.value.result.is_none
        /\ ret.value.result.number =
              MinOf({dist_hash[<<ret.value.x, ret.value.data[j]>>] :
                        j \in DOMAIN ret.value.data})

\* --------------------------------------------------------- failed training
TrainingFailed == "training failed"

\* rebuild_models when svm_model raises for the dataset at position fail_at:
\* line 216 has emptied self.models and line 220 has appended the models of
\* the datasets before it
models_at_failure(datasets, fail_at) ==
    [is_none |-> FALSE,
     list |-> [i \in 1..(fail_at - 1) |->
                 svm_model(get_samples_and_labels(i, datasets[i]), i)]]

\* rebuild_models() on which the training of one feature space fails
RebuildModelsFails ==
    /\ Idle
    /\ \E fail_at \in DOMAIN labeled_datasets :
        /\ models' = models_at_failure(labeled_datasets, fail_at)
        /\ ret' = Raised("rebuild_models", TrainingFailed)
    /\ UNCHANGED <<partitions, query_function, hashes, loop_vars>>

\* rebuilding, with trainings that fail, as examples are labeled
NextRebuild ==
    \/ LabelInstancesInAllDatasets
    \/ RebuildModels
    \/ RebuildModelsFails

SpecRebuild == Init /\ [][NextRebuild]_vars

\* C19 (atomic model replacement): a rebuild_models on which the training of
\* some feature space fails leaves the controller with the models it held
\* before the call; and the models, once there are any, are always one per
\* feature space.
C19_Atomic ==
    [][/\ ret' = Raised("rebuild_models", TrainingFailed) => models' = models
       /\ ~models'.is_none => Len(models'.list) = NumSpaces]_vars

\* ------------------------------------------------------------------ _arg_max
\* _arg_max(ls, f) for a list ls of n distinct elements and any scores f
ArgMax ==
    /\ Idle
    /\ \E n \in 1..MaxArgLen :
        \E f \in [1..n -> 0..MaxScore] :
            LET ls == [j \in 1..n |-> j]
            IN ret' = Returned("_arg_max",
                               [scores |-> [j \in 1..n |-> f[ls[j]]],
                                index |-> _arg_max(ls, f)])
    /\ UNCHANGED <<partitions, models, query_function, hashes, loop_vars>>

NextArgMax ==
    \/ ArgMax

SpecArgMax == Init /\ [][NextArgMax]_vars

\* C20 (_arg_max): for every non-empty list and every scoring function,
\* _arg_max returns the index (counted from 0) of the first element whose
\* score is the greatest of the list: no element scores more, and every
\* element before it scores less.
C20_FirstMaximal ==
    ret.op = "_arg_max" =>
        LET scores == ret.value.scores
            at == ret.value.index + 1
        IN /\ at \in DOMAIN scores
           /\ \A j \in DOMAIN scores : scores[j] <= scores[at]
           /\ \A j \in 1..(at - 1) : scores[j] < scores[at]

====
